---- MODULE Spec2Model ----
(***************************************************************************)
(* os-service-types: the ServiceTypes registry (service_types.py) and the  *)
(* process-wide singleton accessor get_service_types (__init__.py).        *)
(*                                                                         *)
(* Python strings are sequences of one-character strings, so that          *)
(* str.replace and str.rpartition are computed character by character.     *)
(* Python None is the one-element sequence <<"None">>, whose element is    *)
(* not a character of any identifier.                                      *)
(***************************************************************************)
EXTENDS Integers, Sequences, FiniteSets, TLC

VARIABLES
    BUILTIN_DATA,           \* the module-level bundled dataset object
    st,                     \* a registry built by calling ServiceTypes(...) directly
    _service_type_manager,  \* the module-level singleton of __init__.py
    snapshot,               \* history: the dataset st held when its construction ended
    fetches,                \* history: number of session.get calls issued so far
    constructions,          \* history: number of ServiceTypes.__init__ invocations so far
    mutations,              \* history: number of caller mutations of returned values
    ret,                    \* the last call: operation, arguments, outcome
    held                    \* what the caller holds from the last call (a copy or an internal object)

vars == <<BUILTIN_DATA, st, _service_type_manager, snapshot, fetches,
          constructions, mutations, ret, held>>

\* ------------------------------------------------------------------ bounds
MaxAliases == 2
MaxConstructions == 2
MaxMutations == 1

\* ----------------------------------------------------------------- strings
None == <<"None">>

str_empty == <<>>
str_a == <<"a">>
str_b == <<"b">>
str_bb == <<"b", "b">>
str_bHa == <<"b", "-", "a">>
str_bUa == <<"b", "_", "a">>
str_aHb == <<"a", "-", "b">>
str_aUb == <<"a", "_", "b">>
str_zUz == <<"z", "_", "z">>
str_zHz == <<"z", "-", "z">>
str_n == <<"n">>
str_oSn == <<"o", "/", "n">>
str_x == <<"x">>
str_ref == <<"r">>

RECURSIVE replace(_, _, _)
replace(s, old, new) ==
    IF s = <<>> THEN <<>>
    ELSE <<IF Head(s) = old THEN new ELSE Head(s)>> \o replace(Tail(s), old, new)

_normalize_type(service_type) ==
    IF service_type = None \/ service_type = <<>>
    THEN None
    ELSE replace(service_type, "_", "-")

\* name.rpartition('/')[-1]: what follows the last '/', the whole name when there is none
RECURSIVE rpartition_last(_)
rpartition_last(name) ==
    IF name = <<>> THEN <<>>
    ELSE IF \E i \in 1..Len(name) : name[i] = "/"
         THEN rpartition_last(Tail(name))
         ELSE name

\* list membership (Python "x in list") and dict.get
InList(x, l) == \E i \in 1..Len(l) : l[i] = x
dict_get(d, k, default) == IF k \in DOMAIN d THEN d[k] ELSE default
Range(s) == {s[i] : i \in 1..Len(s)}

\* ---------------------------------------------------------------- datasets
\* Identifiers of the published data are in canonical (hyphenated) form.
OfficialPool == <<str_a, str_bHa>>
AliasPool == <<str_b, str_aHb, str_bb>>

RECURSIVE PickAliases(_, _, _)
PickAliases(assign, j, i) ==
    IF i > Len(AliasPool) THEN <<>>
    ELSE (IF assign[i] = j THEN <<AliasPool[i]>> ELSE <<>>) \o PickAliases(assign, j, i + 1)

Service(t, aliases) ==
    IF aliases = <<>>
    THEN [service_type |-> t, project |-> str_oSn, api_reference |-> str_ref]
    ELSE [service_type |-> t, project |-> str_oSn, api_reference |-> str_ref,
          aliases |-> aliases]

\* The dataset with official types offs (in listing order) in which alias
\* AliasPool[i] belongs to offs[assign[i]] (to none when assign[i] = 0).
Dataset(offs, assign) ==
    LET fwd == [t \in Range(offs) |->
                   PickAliases(assign, CHOOSE j \in 1..Len(offs) : offs[j] = t, 1)]
        svc == [j \in 1..Len(offs) |-> Service(offs[j], fwd[offs[j]])]
    IN  [forward |-> fwd,
         reverse |-> [a \in {AliasPool[i] : i \in {k \in 1..Len(AliasPool) : assign[k] # 0}} |->
                         offs[assign[CHOOSE i \in 1..Len(AliasPool) : AliasPool[i] = a]]],
         all_types_by_service_type |-> [t \in Range(offs) |-> <<t>> \o fwd[t]],
         primary_service_by_project |-> [p \in {str_n} |-> svc[1]],
         service_types_by_project |-> [p \in {str_n} |-> offs],
         services |-> svc]

OfficialLists == {<<str_a>>, <<str_bHa>>, <<str_a, str_bHa>>}

Datasets ==
    {Dataset(offs, assign) :
        <<offs, assign>> \in
            {<<o, f>> \in OfficialLists \X [1..Len(AliasPool) -> 0..Len(OfficialPool)] :
                /\ \A i \in 1..Len(AliasPool) : f[i] <= Len(o)
                /\ \A j \in 1..Len(o) :
                      Cardinality({i \in 1..Len(AliasPool) : f[i] = j}) <= MaxAliases}}

\* BUILTIN_DATA = os_service_types.data.read_data('service-types.json')
BuiltinSnapshot == Dataset(<<str_a, str_bHa>>, <<1, 2, 0>>)
RemotePayloads == {Dataset(<<str_a>>, <<1, 0, 1>>)}

NoData == [forward |-> <<>>, reverse |-> <<>>, all_types_by_service_type |-> <<>>,
           primary_service_by_project |-> <<>>, service_types_by_project |-> <<>>,
           services |-> <<>>]

\* ---------------------------------------------------------------- registry
NoRegistry == [id |-> 0, ref |-> "none", remote |-> NoData, _warn |-> FALSE]

\* self._service_types_data: the bundled object itself, or the object response.json() built
Data(self) == IF self.ref = "BUILTIN" THEN BUILTIN_DATA ELSE self.remote

\* ------------------------------------------------------------ construction
\* A session is what its three calls do: session.get, response.raise_for_status
\* and response.json. fail_at names the call that raises (none: all succeed),
\* exc the class of the exception raised there, payload what json() returns.
NoSession == [present |-> FALSE, fail_at |-> "none", exc |-> "none", payload |-> NoData]

ExcClasses == {"OSError", "ValueError"}

\* "except OSError" catches OSError and its subclasses only
IsOSError(exc) == exc = "OSError"

Sessions ==
    {[present |-> TRUE, fail_at |-> "none", exc |-> "none", payload |-> p] :
        p \in RemotePayloads}
    \cup
    {[present |-> TRUE, fail_at |-> f, exc |-> e, payload |-> NoData] :
        f \in {"get", "raise_for_status", "json"}, e \in ExcClasses}

\* ServiceTypes.__init__ with one more fetch after a failed one
ServiceTypes__init__Retry(id, session, only_remote, warn) ==
    IF ~session.present /\ only_remote
    THEN [raised |-> "ValueError", self |-> NoRegistry, gets |-> 0]
    ELSE LET self == [id |-> id, ref |-> "BUILTIN", remote |-> NoData, _warn |-> warn]
         IN  IF ~session.present
             THEN [raised |-> "none", self |-> self, gets |-> 0]
             ELSE IF session.fail_at = "none"
             THEN [raised |-> "none",
                   self |-> [self EXCEPT !.ref = "remote", !.remote = session.payload],
                   gets |-> 1]
             ELSE IF IsOSError(session.exc)
             THEN IF only_remote
                  THEN [raised |-> session.exc, self |-> NoRegistry, gets |-> 2]
                  ELSE [raised |-> "none", self |-> self, gets |-> 2]
             ELSE [raised |-> session.exc, self |-> NoRegistry, gets |-> 2]

\* ServiceTypes.__init__: the exception that leaves it (none: the instance is
\* built), the instance, and the number of session.get calls it issued.
ServiceTypes__init__(id, session, only_remote, warn) ==
    IF ~session.present /\ only_remote
    THEN [raised |-> "ValueError", self |-> NoRegistry, gets |-> 0]
    ELSE LET self == [id |-> id, ref |-> "BUILTIN", remote |-> NoData, _warn |-> warn]
         IN  IF ~session.present
             THEN [raised |-> "none", self |-> self, gets |-> 0]
             ELSE IF session.fail_at = "none"
             THEN [raised |-> "none",
                   self |-> [self EXCEPT !.ref = "remote", !.remote = session.payload],
                   gets |-> 1]
             ELSE IF IsOSError(session.exc)
             THEN IF only_remote
                  THEN [raised |-> session.exc, self |-> NoRegistry, gets |-> 1]
                  ELSE [raised |-> "none", self |-> self, gets |-> 1]
             ELSE [raised |-> session.exc, self |-> NoRegistry, gets |-> 1]

\* get_service_types that builds a new instance when the warn flag differs
get_service_types_rebuild(manager, id, session, only_remote, warn) ==
    IF manager = NoRegistry \/ manager._warn # warn
    THEN LET c == ServiceTypes__init__(id, session, only_remote, warn)
         IN  [raised |-> c.raised,
              manager |-> IF c.raised = "none" THEN c.self ELSE manager,
              val |-> c.self, gets |-> c.gets, built |-> 1]
    ELSE [raised |-> "none", manager |-> manager, val |-> manager, gets |-> 0, built |-> 0]

\* get_service_types: "if not _service_type_manager" holds only for the unset
\* global, an instance being always truthy.
get_service_types(manager, id, session, only_remote, warn) ==
    IF manager = NoRegistry
    THEN LET c == ServiceTypes__init__(id, session, only_remote, warn)
         IN  [raised |-> c.raised,
              manager |-> IF c.raised = "none" THEN c.self ELSE manager,
              val |-> c.self, gets |-> c.gets, built |-> 1]
    ELSE [raised |-> "none", manager |-> manager, val |-> manager, gets |-> 0, built |-> 0]

\* ----------------------------------------------------------------- queries
\* What a call hands to its caller: a value the caller alone owns (a deep
\* copy, a fresh list, an immutable string or bool), or an object of the
\* registry's dataset.
Owned == [kind |-> "owned", key |-> None, idxs |-> <<>>]
AliasListOf(key) == [kind |-> "aliases", key |-> key, idxs |-> <<>>]
ServiceAt(i) == [kind |-> "service", key |-> None, idxs |-> <<i>>]
ListOfServices(idxs) == [kind |-> "services", key |-> None, idxs |-> idxs]

\* The call exc.warn(category, given=..., official=...), as the caller of
\* the operation observes it: one warning of the category
exc_warn(category, given, official) ==
    <<[category |-> category, given |-> given, official |-> official]>>

\* The index in services of the record get_official_service_data returns,
\* 0 when the loop ends without a match.
official_index(self, service_type) ==
    LET n == _normalize_type(service_type)
        services == Data(self).services
        hits == {i \in 1..Len(services) : services[i].service_type = n}
    IN  IF hits = {} THEN 0 ELSE CHOOSE i \in hits : \A j \in hits : i <= j

get_official_service_data(self, service_type) ==
    LET i == official_index(self, service_type)
    IN  IF i = 0
        THEN [raised |-> "none", val |-> None, warnings |-> <<>>, handle |-> Owned]
        ELSE [raised |-> "none", val |-> Data(self).services[i], warnings |-> <<>>,
              handle |-> ServiceAt(i)]

is_official(self, service_type) == official_index(self, service_type) # 0

is_alias(self, service_type) ==
    _normalize_type(service_type) \in DOMAIN Data(self).reverse

is_known(self, service_type) ==
    is_official(self, service_type) \/ is_alias(self, service_type)

get_aliases(self, service_type) ==
    LET n == _normalize_type(service_type)
    IN  IF n \in DOMAIN Data(self).forward
        THEN [raised |-> "none", val |-> Data(self).forward[n], warnings |-> <<>>,
              handle |-> AliasListOf(n)]
        ELSE [raised |-> "none", val |-> <<>>, warnings |-> <<>>, handle |-> Owned]

\* get_service_type returning the caller's spelling in permissive mode
get_service_type_raw(self, service_type, permissive) ==
    LET n == _normalize_type(service_type)
    IN  IF is_official(self, n)
        THEN [raised |-> "none", val |-> n, warnings |-> <<>>, handle |-> Owned]
        ELSE LET official == dict_get(Data(self).reverse, n, None)
             IN  IF permissive /\ official = None
                 THEN [raised |-> "none", val |-> service_type,
                       warnings |-> IF self._warn
                                    THEN exc_warn("UnofficialUsageWarning", n, None)
                                    ELSE <<>>,
                       handle |-> Owned]
                 ELSE [raised |-> "none", val |-> official,
                       warnings |-> IF self._warn
                                    THEN exc_warn("AliasUsageWarning", n, official)
                                    ELSE <<>>,
                       handle |-> Owned]

\* get_service_type warning about an alias only when the alias resolves
get_service_type_quiet(self, service_type, permissive) ==
    LET n == _normalize_type(service_type)
    IN  IF is_official(self, n)
        THEN [raised |-> "none", val |-> n, warnings |-> <<>>, handle |-> Owned]
        ELSE LET official == dict_get(Data(self).reverse, n, None)
             IN  IF permissive /\ official = None
                 THEN [raised |-> "none", val |-> n,
                       warnings |-> IF self._warn
                                    THEN exc_warn("UnofficialUsageWarning", n, None)
                                    ELSE <<>>,
                       handle |-> Owned]
                 ELSE [raised |-> "none", val |-> official,
                       warnings |-> IF self._warn /\ official # None
                                    THEN exc_warn("AliasUsageWarning", n, official)
                                    ELSE <<>>,
                       handle |-> Owned]

get_service_type(self, service_type, permissive) ==
    LET n == _normalize_type(service_type)
    IN  IF is_official(self, n)
        THEN [raised |-> "none", val |-> n, warnings |-> <<>>, handle |-> Owned]
        ELSE LET official == dict_get(Data(self).reverse, n, None)
             IN  IF permissive /\ official = None
                 THEN [raised |-> "none", val |-> n,
                       warnings |-> IF self._warn
                                    THEN exc_warn("UnofficialUsageWarning", n, None)
                                    ELSE <<>>,
                       handle |-> Owned]
                 ELSE [raised |-> "none", val |-> official,
                       warnings |-> IF self._warn
                                    THEN exc_warn("AliasUsageWarning", n, official)
                                    ELSE <<>>,
                       handle |-> Owned]

\* "if not official_service_type": None and the empty string are falsy
get_service_data(self, service_type) ==
    LET official_service_type == get_service_type(self, service_type, FALSE)
    IN  IF official_service_type.val = None \/ official_service_type.val = <<>>
        THEN [raised |-> "none", val |-> None,
              warnings |-> official_service_type.warnings, handle |-> Owned]
        ELSE [get_official_service_data(self, official_service_type.val)
                EXCEPT !.warnings = official_service_type.warnings]

\* is_match comparing the official types both sides resolve to
is_match_resolved(self, requested, found) ==
    IF requested = found
    THEN [raised |-> "none", val |-> TRUE, warnings |-> <<>>, handle |-> Owned]
    ELSE LET r == get_service_type(self, requested, FALSE)
             f == get_service_type(self, found, FALSE)
         IN  [raised |-> "none", val |-> (r.val # None /\ r.val = f.val),
              warnings |-> r.warnings \o f.warnings, handle |-> Owned]

is_match(self, requested, found) ==
    IF requested = found
    THEN [raised |-> "none", val |-> TRUE, warnings |-> <<>>, handle |-> Owned]
    ELSE IF InList(requested, get_aliases(self, found).val)
    THEN [raised |-> "none", val |-> TRUE, warnings |-> <<>>, handle |-> Owned]
    ELSE LET official == get_service_type(self, found, FALSE)
         IN  [raised |-> "none", val |-> (requested = official.val),
              warnings |-> official.warnings, handle |-> Owned]

\* self.all_types_by_service_type is the deep-copying property: the list
\* returned belongs to the caller. A missing key is a KeyError.
get_all_types(self, service_type) ==
    LET n == _normalize_type(service_type)
    IN  IF ~is_known(self, n)
        THEN [raised |-> "none", val |-> <<n>>, warnings |-> <<>>, handle |-> Owned]
        ELSE LET official_service_type == get_service_type(self, n, FALSE)
             IN  IF official_service_type.val = None
                 THEN [raised |-> "AssertionError", val |-> None,
                       warnings |-> official_service_type.warnings, handle |-> Owned]
                 ELSE IF official_service_type.val
                            \notin DOMAIN Data(self).all_types_by_service_type
                 THEN [raised |-> "KeyError", val |-> None,
                       warnings |-> official_service_type.warnings, handle |-> Owned]
                 ELSE [raised |-> "none",
                       val |-> Data(self).all_types_by_service_type[official_service_type.val],
                       warnings |-> official_service_type.warnings, handle |-> Owned]

get_project_name(self, service_type) ==
    LET n == _normalize_type(service_type)
        service == get_service_data(self, n)
    IN  IF service.handle.kind = "service"
        THEN [raised |-> "none", val |-> service.val.project,
              warnings |-> service.warnings, handle |-> Owned]
        ELSE [raised |-> "none", val |-> None,
              warnings |-> service.warnings, handle |-> Owned]

\* _canonical_project_name: raised is the ValueError of an absent name
_canonical_project_name(name) ==
    IF name = None
    THEN [raised |-> "ValueError", val |-> None]
    ELSE [raised |-> "none", val |-> rpartition_last(name)]

\* self.primary_service_by_project is the deep-copying property
get_service_data_for_project(self, project_name) ==
    LET canonical == _canonical_project_name(project_name)
    IN  IF canonical.raised # "none"
        THEN [raised |-> canonical.raised, val |-> None, warnings |-> <<>>, handle |-> Owned]
        ELSE [raised |-> "none",
              val |-> dict_get(Data(self).primary_service_by_project, canonical.val, None),
              warnings |-> <<>>, handle |-> Owned]

\* The loop of get_all_service_data_for_project over the listed service types:
\* the indexes in services of the records appended, and the warnings emitted.
RECURSIVE collect_services(_, _)
collect_services(self, service_types) ==
    IF service_types = <<>>
    THEN [idxs |-> <<>>, warnings |-> <<>>]
    ELSE LET service == get_service_data(self, Head(service_types))
             rest == collect_services(self, Tail(service_types))
         IN  [idxs |-> (IF service.handle.kind = "service"
                         THEN service.handle.idxs ELSE <<>>) \o rest.idxs,
              warnings |-> service.warnings \o rest.warnings]

\* The lookup uses project_name as given. The list is new, its elements are
\* the dataset's own records.
get_all_service_data_for_project(self, project_name) ==
    LET listed == dict_get(Data(self).service_types_by_project, project_name, <<>>)
        data == collect_services(self, listed)
    IN  [raised |-> "none",
         val |-> [k \in 1..Len(data.idxs) |-> Data(self).services[data.idxs[k]]],
         warnings |-> data.warnings,
         handle |-> ListOfServices(data.idxs)]

\* forward, reverse, services, all_types_by_service_type,
\* primary_service_by_project, service_types_by_project: copy.deepcopy of the field
property(self, name) ==
    [raised |-> "none", val |-> Data(self)[name], warnings |-> <<>>, handle |-> Owned]

\* ------------------------------------------------------------------ inputs
TypeInputs == {None, str_empty, str_a, str_b, str_bb, str_bHa, str_bUa,
               str_aHb, str_aUb, str_zUz, str_zHz}
\* what the calls on a registry under construction and mutation are given
FewTypeInputs == {None, str_a, str_b, str_bUa, str_zUz}
ProjectInputs == {None, str_n, str_oSn, str_x}
PropertyNames == {"forward", "reverse", "services", "all_types_by_service_type",
                  "primary_service_by_project", "service_types_by_project"}

Nothing == [kind |-> "nothing", key |-> None, idxs |-> <<>>]

\* ----------------------------------------------------------------- actions
\* The caller sees the outcome r of the call op(args).
Returns(op, args, r) ==
    ret' = [op |-> op, args |-> args, raised |-> r.raised, val |-> r.val,
            warnings |-> r.warnings]

\* st = ServiceTypes(session, only_remote, warn); st keeps its value when the
\* constructor raises.
New ==
    /\ constructions < MaxConstructions
    /\ \E session \in Sessions \cup {NoSession}, only_remote \in BOOLEAN, warn \in BOOLEAN :
          LET c == ServiceTypes__init__(constructions + 1, session, only_remote, warn)
          IN  /\ st' = IF c.raised = "none" THEN c.self ELSE st
              /\ snapshot' = IF c.raised = "none" THEN Data(c.self) ELSE snapshot
              /\ fetches' = fetches + c.gets
              /\ Returns("ServiceTypes",
                         [session |-> session, only_remote |-> only_remote, warn |-> warn],
                         [raised |-> c.raised, val |-> c.self, warnings |-> <<>>])
    /\ constructions' = constructions + 1
    /\ held' = Nothing
    /\ UNCHANGED <<BUILTIN_DATA, _service_type_manager, mutations>>

GetServiceTypes ==
    /\ _service_type_manager # NoRegistry \/ constructions < MaxConstructions
    /\ \E session \in Sessions \cup {NoSession}, only_remote \in BOOLEAN, warn \in BOOLEAN :
          LET g == get_service_types(_service_type_manager, constructions + 1,
                                     session, only_remote, warn)
          IN  /\ _service_type_manager' = g.manager
              /\ fetches' = fetches + g.gets
              /\ constructions' = constructions + g.built
              /\ Returns("get_service_types",
                         [session |-> session, only_remote |-> only_remote, warn |-> warn],
                         [raised |-> g.raised, val |-> g.val, warnings |-> <<>>])
    /\ held' = Nothing
    /\ UNCHANGED <<BUILTIN_DATA, st, snapshot, mutations>>

\* A call on st that hands over a string or a bool
Scalar(op, args, r) ==
    /\ Returns(op, args, r)
    /\ held' = Nothing
    /\ UNCHANGED <<BUILTIN_DATA, st, _service_type_manager, snapshot, fetches,
                   constructions, mutations>>

\* A call on st that hands over a list or a dict
Composite(op, args, r) ==
    /\ Returns(op, args, r)
    /\ held' = IF r.raised = "none" THEN r.handle ELSE Nothing
    /\ UNCHANGED <<BUILTIN_DATA, st, _service_type_manager, snapshot, fetches,
                   constructions, mutations>>

Bool(b) == [raised |-> "none", val |-> b, warnings |-> <<>>]

IsOfficial ==
    /\ st # NoRegistry
    /\ \E t \in TypeInputs :
          Scalar("is_official", [service_type |-> t], Bool(is_official(st, t)))

IsAlias ==
    /\ st # NoRegistry
    /\ \E t \in TypeInputs :
          Scalar("is_alias", [service_type |-> t], Bool(is_alias(st, t)))

IsKnown ==
    /\ st # NoRegistry
    /\ \E t \in TypeInputs :
          Scalar("is_known", [service_type |-> t], Bool(is_known(st, t)))

GetServiceType ==
    /\ st # NoRegistry
    /\ \E t \in TypeInputs, permissive \in BOOLEAN :
          Scalar("get_service_type", [service_type |-> t, permissive |-> permissive],
                 get_service_type(st, t, permissive))

IsMatch ==
    /\ st # NoRegistry
    /\ \E requested \in TypeInputs, found \in TypeInputs :
          Scalar("is_match", [requested |-> requested, found |-> found],
                 is_match(st, requested, found))

GetProjectName ==
    /\ st # NoRegistry
    /\ \E t \in TypeInputs :
          Scalar("get_project_name", [service_type |-> t], get_project_name(st, t))

GetAliases ==
    /\ st # NoRegistry
    /\ \E t \in FewTypeInputs :
          Composite("get_aliases", [service_type |-> t], get_aliases(st, t))

GetOfficialServiceData ==
    /\ st # NoRegistry
    /\ \E t \in FewTypeInputs :
          Composite("get_official_service_data", [service_type |-> t],
                    get_official_service_data(st, t))

GetServiceData ==
    /\ st # NoRegistry
    /\ \E t \in FewTypeInputs :
          Composite("get_service_data", [service_type |-> t], get_service_data(st, t))

GetAllTypes ==
    /\ st # NoRegistry
    /\ \E t \in FewTypeInputs :
          Composite("get_all_types", [service_type |-> t], get_all_types(st, t))

GetServiceDataForProject ==
    /\ st # NoRegistry
    /\ \E p \in ProjectInputs :
          Composite("get_service_data_for_project", [project_name |-> p],
                    get_service_data_for_project(st, p))

GetAllServiceDataForProject ==
    /\ st # NoRegistry
    /\ \E p \in ProjectInputs :
          Composite("get_all_service_data_for_project", [project_name |-> p],
                    get_all_service_data_for_project(st, p))

Property ==
    /\ st # NoRegistry
    /\ \E name \in PropertyNames :
          Composite("property", [name |-> name], property(st, name))

\* The caller changes the value the last call handed over: it appends to a
\* list of aliases, or rewrites the project of a service record. A value the
\* caller owns is no part of the dataset; an object of the dataset is.
Mutated(data, handle, k) ==
    IF handle.kind = "aliases"
    THEN [data EXCEPT !.forward[handle.key] = Append(@, str_zHz)]
    ELSE IF handle.kind \in {"service", "services"} /\ k \in 1..Len(handle.idxs)
    THEN [data EXCEPT !.services[handle.idxs[k]].project = str_x]
    ELSE data

CallerMutate ==
    /\ st # NoRegistry
    /\ held # Nothing
    /\ mutations < MaxMutations
    /\ \E k \in 1..2 :
          LET data == Mutated(Data(st), held, k)
          IN  IF st.ref = "BUILTIN"
              THEN BUILTIN_DATA' = data /\ st' = st
              ELSE st' = [st EXCEPT !.remote = data] /\ BUILTIN_DATA' = BUILTIN_DATA
    /\ mutations' = mutations + 1
    /\ ret' = [op |-> "mutate", args |-> held, raised |-> "none", val |-> None,
               warnings |-> <<>>]
    /\ UNCHANGED <<_service_type_manager, snapshot, fetches, constructions, held>>

\* ---------------------------------------------------------- specifications
NoCall == [op |-> "none", args |-> <<>>, raised |-> "none", val |-> None, warnings |-> <<>>]

\* The process before any registry exists
Init ==
    /\ BUILTIN_DATA = BuiltinSnapshot
    /\ st = NoRegistry
    /\ _service_type_manager = NoRegistry
    /\ snapshot = NoData
    /\ fetches = 0
    /\ constructions = 0
    /\ mutations = 0
    /\ ret = NoCall
    /\ held = Nothing

Next ==
    \/ New
    \/ GetAliases
    \/ GetOfficialServiceData
    \/ GetServiceData
    \/ GetAllTypes
    \/ GetServiceDataForProject
    \/ GetAllServiceDataForProject
    \/ Property
    \/ CallerMutate

Spec == Init /\ [][Next]_vars

\* The process calling get_service_types, and the constructor directly
SingletonNext ==
    \/ GetServiceTypes
    \/ New

SingletonSpec == Init /\ [][SingletonNext]_vars

\* A registry built from a session whose fetch returned a dataset of the family
QueryInit ==
    /\ BUILTIN_DATA = BuiltinSnapshot
    /\ \E d \in Datasets, warn \in BOOLEAN :
          LET c == ServiceTypes__init__(
                       1, [present |-> TRUE, fail_at |-> "none", exc |-> "none",
                           payload |-> d], FALSE, warn)
          IN  st = c.self /\ snapshot = d /\ fetches = c.gets
    /\ _service_type_manager = NoRegistry
    /\ constructions = 1
    /\ mutations = 0
    /\ ret = NoCall
    /\ held = Nothing

QueryNext ==
    \/ IsOfficial
    \/ IsAlias
    \/ IsKnown
    \/ GetServiceType
    \/ IsMatch
    \/ GetProjectName

QuerySpec == QueryInit /\ [][QueryNext]_vars

\* ------------------------------------------------------------------ claims
Officials(self) == {Data(self).services[i].service_type : i \in 1..Len(Data(self).services)}
IsAliasOf(self, a, t) == t \in DOMAIN Data(self).forward /\ InList(a, Data(self).forward[t])
QueryOps == {"get_aliases", "get_official_service_data", "get_service_data",
             "get_all_types", "get_service_data_for_project",
             "get_all_service_data_for_project", "property"}

C2_Resolution ==
    ret.op = "get_service_type" =>
        LET n == _normalize_type(ret.args.service_type)
            reverse == Data(st).reverse
        IN  /\ ret.raised = "none"
            /\ ret.val = IF n \in Officials(st) THEN n
                         ELSE IF n \in DOMAIN reverse THEN reverse[n]
                         ELSE IF ret.args.permissive THEN n
                         ELSE None
            /\ ret.args.service_type \in Officials(st) => ret.val = ret.args.service_type
            /\ ~ret.args.permissive => ret.val = None \/ ret.val \in Officials(st)

C2_Witness ==
    /\ ret.op = "get_service_type"
    /\ _normalize_type(ret.args.service_type) # ret.args.service_type
    /\ _normalize_type(ret.args.service_type) \in DOMAIN Data(st).reverse
    /\ ret.val \in Officials(st)

\* C3: is_match is true exactly when the two identifiers are equal, or found
\* is official and requested is among its aliases, or requested is official
\* and found resolves to it.
C3_MatchExactly ==
    ret.op = "is_match" =>
        LET requested == ret.args.requested
            found == ret.args.found
        IN  ret.val =
               \/ requested = found
               \/ is_official(st, found) /\ InList(requested, get_aliases(st, found).val)
               \/ is_official(st, requested)
                  /\ get_service_type(st, found, FALSE).val = requested

\* C4: with a session, a failed fetch of any kind leaves a registry on the
\* bundled dataset when only_remote is false and raises the failure when it is
\* true; a successful fetch makes the payload the dataset.
C4_FetchFailurePolicy ==
    (ret.op = "ServiceTypes" /\ ret.args.session.present) =>
        IF ret.args.session.fail_at = "none"
        THEN ret.raised = "none" /\ st = ret.val /\ st.ref = "remote"
             /\ st.remote = ret.args.session.payload
        ELSE IF ret.args.only_remote
        THEN ret.raised = ret.args.session.exc
        ELSE ret.raised = "none" /\ st = ret.val /\ st.ref = "BUILTIN"

\* C5: whatever the caller does to the values the registry returned, the
\* registry's dataset stays the one it had when its construction ended.
C5_DatasetIsolated ==
    st # NoRegistry => Data(st) = snapshot

\* C6: a construction issues one session.get when a session is given and none
\* otherwise, the configuration error comes with no fetch and no registry, and
\* no query issues a fetch or replaces the dataset.
C6_OneFetchPerConstruction ==
    [][/\ ret'.op = "ServiceTypes"
          => /\ fetches' = fetches + (IF ret'.args.session.present THEN 1 ELSE 0)
             /\ (~ret'.args.session.present /\ ret'.args.only_remote)
                => ret'.raised = "ValueError" /\ st' = st
       /\ ret'.op \in QueryOps
          => /\ fetches' = fetches
             /\ constructions' = constructions
             /\ st' = st
             /\ BUILTIN_DATA' = BUILTIN_DATA]_vars

C6_Witness ==
    /\ ret.op = "ServiceTypes"
    /\ ret.args.session.fail_at = "get"
    /\ ret.raised = "none"
    /\ st.ref = "BUILTIN"
    /\ fetches = 1

\* C7: get_all_service_data_for_project gives a namespaced project name the
\* records of the bare name: those its listed service types resolve to, in
\* the stored order.
C7_ProjectCanonicalized ==
    (ret.op = "get_all_service_data_for_project" /\ ret.args.project_name # None) =>
        LET listed == dict_get(Data(st).service_types_by_project,
                               rpartition_last(ret.args.project_name), <<>>)
            idxs == collect_services(st, listed).idxs
        IN  /\ ret.raised = "none"
            /\ ret.val = [k \in 1..Len(idxs) |-> Data(st).services[idxs[k]]]

\* C8: both project operations raise ValueError for an absent project name,
\* and raise nothing for a present one.
C8_AbsentProjectRaises ==
    ret.op \in {"get_service_data_for_project", "get_all_service_data_for_project"} =>
        IF ret.args.project_name = None
        THEN ret.raised = "ValueError"
        ELSE ret.raised = "none"

\* C9: the warn flag does not change what get_service_type returns; without it
\* nothing is emitted; with it an official input emits nothing, a permissive
\* unknown input one UnofficialUsageWarning, every other input one
\* AliasUsageWarning.
C9_WarningsObservational ==
    ret.op = "get_service_type" =>
        LET n == _normalize_type(ret.args.service_type)
            other == get_service_type([st EXCEPT !._warn = ~st._warn],
                                      ret.args.service_type, ret.args.permissive)
        IN  /\ ret.val = other.val
            /\ ~st._warn => ret.warnings = <<>>
            /\ st._warn =>
                  IF n \in Officials(st)
                  THEN ret.warnings = <<>>
                  ELSE /\ Len(ret.warnings) = 1
                       /\ ret.warnings[1].category =
                             IF ret.args.permissive /\ n \notin DOMAIN Data(st).reverse
                             THEN "UnofficialUsageWarning"
                             ELSE "AliasUsageWarning"

C9_Witness ==
    /\ ret.op = "get_service_type"
    /\ st._warn
    /\ ~ret.args.permissive
    /\ ret.val = None
    /\ Len(ret.warnings) = 1
    /\ ret.warnings[1].category = "AliasUsageWarning"
    /\ ret.warnings[1].official = None

\* C10: once get_service_types has returned an instance, every later call
\* returns that instance whatever its arguments, with no construction and no
\* fetch; a call whose construction raises leaves the singleton unset.
C10_Singleton ==
    [][/\ ret'.op = "get_service_types"
          => IF _service_type_manager # NoRegistry
             THEN /\ ret'.raised = "none"
                  /\ ret'.val = _service_type_manager
                  /\ constructions' = constructions
                  /\ fetches' = fetches
             ELSE /\ constructions' = constructions + 1
                  /\ ret'.raised # "none" => _service_type_manager' = NoRegistry
                  /\ ret'.raised = "none"
                     => /\ _service_type_manager' = ret'.val
                        /\ _service_type_manager' # NoRegistry
                        /\ _service_type_manager'._warn = ret'.args.warn
       /\ _service_type_manager # NoRegistry
          => _service_type_manager' = _service_type_manager]_vars

C10_Witness ==
    /\ ret.op = "get_service_types"
    /\ ret.raised = "none"
    /\ ret.val = _service_type_manager
    /\ ret.args.warn # _service_type_manager._warn
    /\ ret.args.session.present
    /\ fetches = 0

====
